---- MODULE Spec2Model ----
(***************************************************************************)
(* Verification model of the gftp chunked transfer pipeline                *)
(* (utils/transfer/src/gftp.rs): GftpTransferProvider::source and          *)
(* GftpTransferProvider::destination, each running on its own worker       *)
(* thread, talking to a remote peer through service-bus calls.             *)
(*                                                                         *)
(* Byte values are position tags: byte k of a resource has value k, so     *)
(* any reordering, gap, overlap or duplication of content is visible.      *)
(*                                                                         *)
(* Further parts, each a specification of its own over its own variables:  *)
(* the service bus with the payment REST handlers send_invoice and         *)
(* send_debit_note as its caller (core/payment/src/api/provider.rs), and   *)
(* the supervision of child processes (golem_cli/src/service.rs).          *)
(***************************************************************************)
EXTENDS Integers, Sequences, FiniteSets, TLC

(***************************************************************************)
(* Bounds.  The program's own values (window 12, the gftp default chunk    *)
(* size, 2^64) are scaled down; every formula below is stated for          *)
(* arbitrary values of them.                                               *)
(***************************************************************************)
\* window of the buffered chunk fetch (GftpTransferProvider.rx_buffer_sz)
rx_buffer_sz == 2
\* DEFAULT_CHUNK_SIZE
chunk_size == 2
\* largest number of chunks of a resource whose chunks are actually fetched
MaxChunks == 3
\* stands for 2^64: u64 arithmetic is taken modulo this
U64Modulus == 16
\* destination: number of input items the caller pushes, and their length
MaxItems == 2
MaxItemLen == 5
\* how many times the caller invokes abort on one transfer
MaxAborts == 2
\* how many messages are sent to one actor
MaxMessages == 3

\* capacity argument of TransferStream::create / TransferSink::create
ChannelSize == 1

Min(a, b) == IF a < b THEN a ELSE b

Ceil(a, b) == (a + b - 1) \div b

None == [none |-> TRUE]

Modes == {"source", "destination", "pipe"}

\* sizes a peer may report in its GetMetadata reply: the small ones, whose
\* chunks are fetched, and the ones at the top of the u64 range
FileSizes == (0..MaxChunks * chunk_size) \cup ((U64Modulus - chunk_size)..(U64Modulus - 1))

\* the resource served by the peer: s position-tagged bytes
File(s) == [k \in 1..s |-> k]

VARIABLES
    mode,            \* which transfer is run: source, destination, or both piped
    \* ---- source worker (gftp.rs 34-76)
    src_url_ok,      \* gftp::extract_url(&url) succeeds
    src_pc,          \* position of the source future / state of the transfer
    file_size,       \* meta.file_size as reported by the peer
    n,               \* chunk count computed at line 49
    next_chunk,      \* position of stream::iter(0..n): calls issued so far
    in_progress,     \* queue of Buffered: GetChunk calls issued, not yet yielded
    buffered_item,   \* Forward's buffered item
    with_state,      \* item held by the With adapter of the sink
    chan,            \* the stream's mpsc channel (tx/txc -> TransferStream)
    tx_parked,       \* sender tx is parked (channel over its buffer)
    chan_closed,     \* every sender of the channel is gone
    src_result,      \* terminal outcomes published by the source worker
    src_abort,       \* abort signalled through the stream's abort handle
    src_thread,      \* the thread spawned at line 42
    meta_calls,      \* GetMetadata exchanges made
    meta_outcome,    \* how the GetMetadata exchange resolved ("none" before)
    chunk_calls,     \* GetChunk requests issued, in issue order
    delivered,       \* items the downstream consumer has pulled
    \* ---- destination worker (gftp.rs 78-119)
    dst_url_ok,
    dst_pc,
    rx,              \* input queue of the sink (caller -> worker)
    rx_closed,       \* the caller closed the sink
    pushed,          \* number of items the caller pushed
    pushed_bytes,    \* content bytes the caller pushed
    bytes,           \* current item (line 93)
    i,               \* slice index of the for loop (line 96)
    offset,          \* running offset (line 90)
    uploads,         \* UploadChunk calls in flight
    upload_calls,    \* UploadChunk requests issued, in issue order
    upload_log,      \* UploadChunk requests in the order the peer handled them
    dst_result,      \* outcomes sent on the sink's result channel
    dst_abort,
    dst_thread,
    \* ---- caller
    abort_calls,        \* number of abort() invocations so far
    src_aborting,       \* an abort() of the stream is in progress
    src_abort_returned, \* an abort() of the stream has returned to the caller
    dst_aborting,
    dst_abort_returned,
    \* ---- addressing (gftp.rs 44-47, 86-88)
    src_url,         \* node id and hash extracted from the source url
    dst_url,         \* node id and random filename of the destination url
    src_addrs,       \* service addresses the source worker sent requests to
    dst_addrs,       \* service addresses the destination worker sent requests to
    \* ---- service bus: registry and the exchange of one call
    registry,        \* address -> the handler bound to it, or "none"
    binds,           \* bind call -> "none", "pending", "Ok" or "AddressConflict"
    call_state,      \* where the request / reply of the call is
    handled_by,      \* the handler the call was dispatched to
    reply,           \* what the remote handler returned
    pending,         \* the caller's PendingCall record exists
    caller_outcomes, \* outcomes the call resolved with, as seen by the caller
    late_discarded,  \* a reply arrived after the call was resolved and was dropped
    \* ---- payment REST handler (core/payment/src/api/provider.rs)
    pay_op,          \* send_invoice or send_debit_note
    pay_timeout,     \* query.timeout of the request
    doc_issuer,      \* issuer_id stored with the document
    doc_recipient,   \* recipient_id stored with the document
    doc_lookup,      \* what dao.get resolved with
    pay_pc,          \* position of the handler
    http,            \* responses returned to the HTTP client
    doc_status,      \* status of the stored document
    update_calls,    \* dao.update_status calls made
    \* ---- supervised child processes (golem_cli/src/service.rs)
    linux,           \* the build targets Linux (cfg target_os = "linux")
    proc,            \* child -> "running", "exited" (by itself) or "killed"
    term_sent,       \* child -> SIGTERM was sent to it
    task,            \* child -> position of the task spawned by AbortableChild::new
    timer,           \* child -> the grace timer: "off", "running" or "fired"
    abort_st,        \* child -> abort(): "none", "waiting" or "returned"
    abort_result,    \* child -> what wait_and_kill returned
    abort_ret,       \* child -> what abort() returned to run()
    events,          \* end-of-process notifications queued for run()
    ctrl_c,          \* ctrl-c was pressed
    run_pc,          \* position of run()
    exit_code,       \* what run() returned
    \* ---- actor with generated handlers (agent/provider/src/utils/actix_handler.rs)
    actor_up,        \* the actor's arbiter runs
    mailbox,         \* messages sent to the actor and not yet handled
    kind,            \* message -> the macro its handler was generated by
    inv,             \* message -> position of its handler invocation
    actor_impl,      \* the RefCell: the invocations holding a RefMut of it
    borrow_errors    \* <<invocation, holder>> of every borrow_mut() that found it borrowed

srcVars == <<src_url_ok, src_pc, file_size, n, next_chunk, in_progress, buffered_item,
             with_state, chan, tx_parked, chan_closed, src_result, src_abort,
             src_thread, meta_calls, meta_outcome, chunk_calls, delivered>>

dstVars == <<dst_url_ok, dst_pc, rx, rx_closed, pushed, pushed_bytes, bytes, i, offset,
             uploads, upload_calls, upload_log, dst_result, dst_abort, dst_thread>>

callerVars == <<abort_calls, src_aborting, src_abort_returned, dst_aborting,
                dst_abort_returned>>

addrVars == <<src_url, dst_url, src_addrs, dst_addrs>>

busVars == <<registry, binds, call_state, handled_by, reply, pending, caller_outcomes,
             late_discarded>>

payVars == <<pay_op, pay_timeout, doc_issuer, doc_recipient, doc_lookup, pay_pc, http, doc_status, update_calls>>

childVars == <<linux, proc, term_sent, task, timer, abort_st, abort_result, abort_ret,
               events, ctrl_c, run_pc, exit_code>>

actorVars == <<actor_up, mailbox, kind, inv, actor_impl, borrow_errors>>

\* the state outside the transfer pipeline
sideVars == <<busVars, payVars, childVars, actorVars>>

vars == <<mode, srcVars, dstVars, callerVars, addrVars, sideVars>>

HasSource == mode \in {"source", "pipe"}

HasDestination == mode \in {"destination", "pipe"}

\* node ids and tokens (hash of a published file, random name of an upload)
\* a gftp url can carry
Nodes == {"n1", "n2"}

Tokens == {"t1", "t2"}

\* gftp::extract_url: the node id and the token of a well-formed url
Url(node, token) == [node |-> node, token |-> token]

Urls == {Url(node, token) : node \in Nodes, token \in Tokens}

\* ya_core_model::gftp::file_bus_id: the bus path of the file service of a token
file_bus_id(token) == <<"public", "gftp", token>>

\* NodeId::service: the endpoint of a bus path on a node
service(node, bus_id) == [node |-> node, path |-> bus_id]

\* an endpoint that does not depend on the hash of the url
SrcRemote_FixedPath == service(src_url.node, file_bus_id("t1"))

\* line 47: the endpoint every request of the source worker is sent to
SrcRemote == service(src_url.node, file_bus_id(src_url.token))

\* line 88: the endpoint every request of the destination worker is sent to
DstRemote == service(dst_url.node, file_bus_id(dst_url.token))

SrcTerminal == {"completed", "failed", "aborted", "panicked"}

DstTerminal == {"completed", "failed", "aborted"}

OkItem(data) == [ok |-> TRUE, data |-> data]

ErrItem(e) == [ok |-> FALSE, err |-> e]

-----------------------------------------------------------------------------
(* Initial state: the state right after source()/destination() returned.   *)

SrcInit ==
    /\ src_url_ok \in BOOLEAN
    /\ file_size \in FileSizes
    /\ src_pc = IF HasSource THEN "created" ELSE "unused"
    /\ n = 0
    /\ next_chunk = 0
    /\ in_progress = <<>>
    /\ buffered_item = None
    /\ with_state = None
    /\ chan = <<>>
    /\ tx_parked = FALSE
    /\ chan_closed = FALSE
    /\ src_result = <<>>
    /\ src_abort = FALSE
    /\ src_thread = IF HasSource THEN "running" ELSE "unused"
    /\ meta_calls = 0
    /\ meta_outcome = "none"
    /\ chunk_calls = <<>>
    /\ delivered = <<>>

SrcUnused ==
    /\ src_url_ok = TRUE
    /\ file_size = 0
    /\ src_pc = "unused"
    /\ n = 0
    /\ next_chunk = 0
    /\ in_progress = <<>>
    /\ buffered_item = None
    /\ with_state = None
    /\ chan = <<>>
    /\ tx_parked = FALSE
    /\ chan_closed = FALSE
    /\ src_result = <<>>
    /\ src_abort = FALSE
    /\ src_thread = "unused"
    /\ meta_calls = 0
    /\ meta_outcome = "none"
    /\ chunk_calls = <<>>
    /\ delivered = <<>>

DstInit ==
    /\ dst_url_ok \in BOOLEAN
    /\ dst_pc = "created"
    /\ rx = <<>>
    /\ rx_closed = FALSE
    /\ pushed = 0
    /\ pushed_bytes = 0
    /\ bytes = <<>>
    /\ i = 0
    /\ offset = 0
    /\ uploads = {}
    /\ upload_calls = <<>>
    /\ upload_log = <<>>
    /\ dst_result = <<>>
    /\ dst_abort = FALSE
    /\ dst_thread = "running"

DstUnused ==
    /\ dst_url_ok = TRUE
    /\ dst_pc = "unused"
    /\ rx = <<>>
    /\ rx_closed = FALSE
    /\ pushed = 0
    /\ pushed_bytes = 0
    /\ bytes = <<>>
    /\ i = 0
    /\ offset = 0
    /\ uploads = {}
    /\ upload_calls = <<>>
    /\ upload_log = <<>>
    /\ dst_result = <<>>
    /\ dst_abort = FALSE
    /\ dst_thread = "unused"

TransferInit ==
    /\ mode \in Modes
    /\ IF HasSource THEN SrcInit ELSE SrcUnused
    /\ IF HasDestination THEN DstInit ELSE DstUnused
    /\ abort_calls = 0
    /\ src_aborting = FALSE
    /\ src_abort_returned = FALSE
    /\ dst_aborting = FALSE
    /\ dst_abort_returned = FALSE
    /\ src_addrs = {}
    /\ dst_addrs = {}

\* bus addresses: the payment service of the recipient, and one more
BusAddrs == {"payment", "quit"}

\* the handlers that ask to be bound, and the address each asks for
Handlers == {"h1", "h2", "h3"}

BindCalls == (Handlers \X {"payment"}) \cup {<<"h1", "quit">>}

\* messages sent to the actor
Messages == 1..MaxMessages

\* no actor
ActorIdle ==
    /\ actor_up = FALSE
    /\ mailbox = <<>>
    /\ kind = [m \in Messages |-> "none"]
    /\ inv = [m \in Messages |-> "none"]
    /\ actor_impl = {}
    /\ borrow_errors = {}

\* the two children run() supervises (service.rs 128-129)
Children == {"yagna", "provider"}

\* no supervised process
ChildIdle ==
    /\ linux = TRUE
    /\ proc = [c \in Children |-> "none"]
    /\ term_sent = [c \in Children |-> FALSE]
    /\ task = [c \in Children |-> "none"]
    /\ timer = [c \in Children |-> "off"]
    /\ abort_st = [c \in Children |-> "none"]
    /\ abort_result = [c \in Children |-> "none"]
    /\ abort_ret = [c \in Children |-> "none"]
    /\ events = 0
    /\ ctrl_c = FALSE
    /\ run_pc = "none"
    /\ exit_code = "none"

\* no bus traffic and no REST request
BusIdle ==
    /\ registry = [a \in BusAddrs |-> "none"]
    /\ binds = [b \in BindCalls |-> "none"]
    /\ call_state = "none"
    /\ handled_by = "none"
    /\ reply = "none"
    /\ pending = FALSE
    /\ caller_outcomes = <<>>
    /\ late_discarded = FALSE
    /\ pay_op = "none"
    /\ pay_timeout = 0
    /\ doc_issuer = "none"
    /\ doc_recipient = "none"
    /\ doc_lookup = "none"
    /\ pay_pc = "idle"
    /\ http = <<>>
    /\ doc_status = "Issued"
    /\ update_calls = 0

SideIdle == BusIdle /\ ChildIdle /\ ActorIdle

\* no transfer
TransferIdle ==
    /\ mode = "none"
    /\ SrcUnused
    /\ DstUnused
    /\ abort_calls = 0
    /\ src_aborting = FALSE
    /\ src_abort_returned = FALSE
    /\ dst_aborting = FALSE
    /\ dst_abort_returned = FALSE
    /\ src_addrs = {}
    /\ dst_addrs = {}
    /\ src_url = Url("n1", "t1")
    /\ dst_url = Url("n1", "t1")

\* the transfers of one url pair; the behaviour of a transfer does not depend
\* on which node and token its url names
Init ==
    /\ TransferInit
    /\ SideIdle
    /\ src_url = Url("n1", "t1")
    /\ dst_url = Url("n1", "t2")

-----------------------------------------------------------------------------
(* The remote peer and the bus.                                            *)

\* a bus call resolves with exactly one of: the handler's reply, the
\* handler's own error, or a failure of the bus itself
CallOutcomes == {"ok", "remote_err", "bus_err"}

\* an upload may also be given up by the caller's side of the bus after the
\* peer has handled it
UploadOutcomes == CallOutcomes \cup {"timeout"}

PeerHandled(outcome) == outcome \in {"ok", "timeout"}

\* the peer's GetChunk handler: the bytes [offset, offset + size) of the file
GetChunkReply(off, size) ==
    [offset |-> off,
     content |-> SubSeq(File(file_size), off + 1, Min(off + size, file_size))]

-----------------------------------------------------------------------------
(* Source worker.                                                          *)

\* a worker that goes on polling the future after the abort
SrcPolled_IgnoresAbort == HasSource

\* Abortable polls the wrapped future only while no abort was signalled
SrcPolled == HasSource /\ ~src_abort

\* an abort that is acted upon whether or not the stream was resolved before
SrcResolved_Never == FALSE

\* the stream has been resolved: the worker is in a terminal state
SrcResolved == src_pc \in SrcTerminal

\* line 49: (meta.file_size + chunk_size - 1) / chunk_size in u64
Overflows(s) == s + chunk_size - 1 >= U64Modulus

ChunkCount(s) == ((s + chunk_size - 1) % U64Modulus) \div chunk_size

\* lines 53-56: the request for one chunk number
GetChunk(chunk_number) ==
    [offset |-> (chunk_number * chunk_size) % U64Modulus, size |-> chunk_size]

\* a window check that is off by one
BufferedHasRoom_OffByOne(q) == Len(q) <= rx_buffer_sz

\* .buffered(buffer_sz): a new call is started only while the queue holds
\* fewer than buffer_sz entries
BufferedHasRoom(q) == Len(q) < rx_buffer_sz

\* an unordered pool (buffer_unordered): any resolved call is yielded
BufferedNext_Unordered(q) == {k \in DOMAIN q : q[k].st # "pending"}

\* .buffered(buffer_sz): results leave the queue in the order of the calls,
\* so only the head of the queue can be yielded, once it has resolved
BufferedNext(q) == IF q # <<>> /\ q[1].st # "pending" THEN {1} ELSE {}

RemoveAt(q, k) == SubSeq(q, 1, k - 1) \o SubSeq(q, k + 1, Len(q))

\* lines 61-66: the closure given to .with()
WithMap(r) == IF r.ok THEN OkItem(r.chunk.content) ELSE ErrItem("GftpError")

\* an unbounded channel: the sender never parks
ParksAfter_Never(c) == FALSE

\* futures mpsc: a sender parks itself when its send takes the channel over
\* its buffer
ParksAfter(c) == Len(c) > ChannelSize

\* SrcFail where a failure is logged and the future goes on
SrcFail_LogOnly(e) ==
    /\ src_pc' = "streaming"
    /\ UNCHANGED <<in_progress, buffered_item, with_state, chan, chan_closed, src_result>>
    /\ UNCHANGED <<src_url_ok, file_size, n, next_chunk, tx_parked, src_abort,
                   src_thread, chunk_calls, delivered>>

\* abortable_stream, the wrapped future returned Err(e): the error is sent
\* through txc as the last item and the channel is closed
SrcFail(e) ==
    /\ src_pc' = "failed"
    /\ in_progress' = <<>>
    /\ buffered_item' = None
    /\ with_state' = None
    /\ chan' = Append(chan, ErrItem(e))
    /\ chan_closed' = TRUE
    /\ src_result' = Append(src_result, "Failed")
    /\ UNCHANGED <<src_url_ok, file_size, n, next_chunk, tx_parked, src_abort,
                   src_thread, chunk_calls, delivered>>

\* the result of extract_url is not looked at
UrlAccepted_Unchecked(ok) == TRUE

\* lines 44-45, 86-87: `extract_url(&url).map_err(..)?` lets the future go
\* on only with a well-formed gftp url
UrlAccepted(ok) == ok

\* lines 44-48: extract_url, then the GetMetadata exchange is started
SrcStart ==
    /\ SrcPolled
    /\ src_pc = "created"
    /\ IF UrlAccepted(src_url_ok)
       THEN /\ src_pc' = "metadata"
            /\ meta_calls' = meta_calls + 1
            /\ UNCHANGED <<src_url_ok, file_size, n, next_chunk, in_progress,
                           buffered_item, with_state, chan, tx_parked, chan_closed,
                           src_result, src_abort, src_thread, chunk_calls, delivered>>
            /\ src_addrs' = src_addrs \cup {SrcRemote}
       ELSE SrcFail("InvalidUrlError") /\ UNCHANGED <<meta_calls, src_addrs>>
    /\ UNCHANGED <<mode, sideVars, meta_outcome, src_url, dst_url, dst_addrs, dstVars, callerVars>>

\* line 48, `.await??` after a send that took no part in the metadata: the
\* outcome of the exchange is not looked at
MetadataOk_Ignored(outcome) == TRUE

\* line 48, `.await??`: only a reply that carries the metadata lets the
\* future go on; a bus error and a GftpError both return from it
MetadataOk(outcome) == outcome = "ok"

\* lines 48-49: the GetMetadata exchange resolves (`.await??`)
SrcMetadata(outcome) ==
    /\ SrcPolled
    /\ src_pc = "metadata"
    /\ IF MetadataOk(outcome)
       THEN /\ src_pc' = "streaming"
            /\ n' = ChunkCount(file_size)
            /\ UNCHANGED <<src_url_ok, file_size, next_chunk, in_progress, buffered_item,
                           with_state, chan, tx_parked, chan_closed, src_result,
                           src_abort, src_thread, chunk_calls, delivered>>
       ELSE SrcFail(outcome)
    /\ meta_outcome' = outcome
    /\ UNCHANGED <<mode, sideVars, addrVars, meta_calls, dstVars, callerVars>>

\* line 49 in a build with overflow checks: the addition panics, the thread
\* unwinds and drops tx and txc without a terminal item
SrcMetadataPanic ==
    /\ SrcPolled
    /\ src_pc = "metadata"
    /\ Overflows(file_size)
    /\ src_pc' = "panicked"
    /\ chan_closed' = TRUE
    /\ UNCHANGED <<src_url_ok, file_size, n, next_chunk, in_progress, buffered_item,
                   with_state, chan, tx_parked, src_result, src_abort, src_thread,
                   chunk_calls, delivered>>
    /\ UNCHANGED <<mode, sideVars, addrVars, meta_calls, meta_outcome, dstVars, callerVars>>

\* lines 51-58: Buffered fills its queue with the next call
SrcIssue ==
    /\ SrcPolled
    /\ src_pc = "streaming"
    /\ next_chunk < n
    /\ BufferedHasRoom(in_progress)
    /\ in_progress' = Append(in_progress, [chunk_number |-> next_chunk, st |-> "pending"])
    /\ chunk_calls' = Append(chunk_calls, GetChunk(next_chunk))
    /\ next_chunk' = next_chunk + 1
    /\ src_addrs' = src_addrs \cup {SrcRemote}
    /\ UNCHANGED <<src_url_ok, src_pc, file_size, n, buffered_item, with_state, chan,
                   tx_parked, chan_closed, src_result, src_abort, src_thread, delivered>>
    /\ UNCHANGED <<mode, sideVars, src_url, dst_url, dst_addrs, meta_calls, meta_outcome, dstVars,
                   callerVars>>

\* a GetChunk call in flight resolves; calls resolve in any order
SrcChunkReply(k, outcome) ==
    /\ HasSource
    /\ k \in DOMAIN in_progress
    /\ in_progress[k].st = "pending"
    /\ in_progress' = [in_progress EXCEPT ![k].st = outcome]
    /\ UNCHANGED <<src_url_ok, src_pc, file_size, n, next_chunk, buffered_item, with_state,
                   chan, tx_parked, chan_closed, src_result, src_abort, src_thread,
                   chunk_calls, delivered>>
    /\ UNCHANGED <<mode, sideVars, addrVars, meta_calls, meta_outcome, dstVars, callerVars>>

\* the result of a resolved call, as an item of the buffered stream
CallResult(e) ==
    IF e.st = "ok"
    THEN LET rq == GetChunk(e.chunk_number)
         IN  [ok |-> TRUE, chunk |-> GetChunkReply(rq.offset, rq.size)]
    ELSE [ok |-> FALSE, err |-> "GftpError"]

\* lines 58-60: Forward takes the next item of the buffered stream; an Err of
\* the stream (a bus failure) ends the forward with that error
SrcYield ==
    /\ SrcPolled
    /\ src_pc = "streaming"
    /\ buffered_item = None
    /\ \E k \in BufferedNext(in_progress) :
         IF in_progress[k].st = "bus_err"
         THEN SrcFail("bus_err")
         ELSE /\ buffered_item' = CallResult(in_progress[k])
              /\ in_progress' = RemoveAt(in_progress, k)
              /\ UNCHANGED <<src_url_ok, src_pc, file_size, n, next_chunk, with_state,
                             chan, tx_parked, chan_closed, src_result, src_abort,
                             src_thread, chunk_calls, delivered>>
    /\ UNCHANGED <<mode, sideVars, addrVars, meta_calls, meta_outcome, dstVars, callerVars>>

\* lines 60-67: Forward offers its buffered item to the sink.  With::poll_ready
\* first passes the item it holds to tx, then asks tx for room; if tx has
\* room With::start_send applies the closure to the new item
SrcSinkSend ==
    /\ SrcPolled
    /\ src_pc = "streaming"
    /\ buffered_item # None
    /\ with_state # None \/ ~tx_parked
    /\ LET flushed == IF with_state = None THEN chan ELSE Append(chan, with_state)
           parked == IF with_state = None THEN tx_parked ELSE ParksAfter(flushed)
       IN  /\ chan' = flushed
           /\ tx_parked' = parked
           /\ IF parked
              THEN with_state' = None /\ UNCHANGED buffered_item
              ELSE with_state' = WithMap(buffered_item) /\ buffered_item' = None
    /\ UNCHANGED <<src_url_ok, src_pc, file_size, n, next_chunk, in_progress, chan_closed,
                   src_result, src_abort, src_thread, chunk_calls, delivered>>
    /\ UNCHANGED <<mode, sideVars, addrVars, meta_calls, meta_outcome, dstVars, callerVars>>

\* line 60: the buffered stream is pending, Forward flushes the sink
SrcFlush ==
    /\ SrcPolled
    /\ src_pc = "streaming"
    /\ buffered_item = None
    /\ with_state # None
    /\ in_progress # <<>>
    /\ BufferedNext(in_progress) = {}
    /\ chan' = Append(chan, with_state)
    /\ tx_parked' = ParksAfter(chan')
    /\ with_state' = None
    /\ UNCHANGED <<src_url_ok, src_pc, file_size, n, next_chunk, in_progress, buffered_item,
                   chan_closed, src_result, src_abort, src_thread, chunk_calls, delivered>>
    /\ UNCHANGED <<mode, sideVars, addrVars, meta_calls, meta_outcome, dstVars, callerVars>>

\* lines 60-72: the buffered stream has ended; Forward closes the sink (which
\* flushes With), the future returns Ok and abortable_stream closes txc
SrcComplete ==
    /\ SrcPolled
    /\ src_pc = "streaming"
    /\ next_chunk >= n
    /\ in_progress = <<>>
    /\ buffered_item = None
    /\ chan' = IF with_state = None THEN chan ELSE Append(chan, with_state)
    /\ with_state' = None
    /\ chan_closed' = TRUE
    /\ src_pc' = "completed"
    /\ src_result' = Append(src_result, "Completed")
    /\ UNCHANGED <<src_url_ok, file_size, n, next_chunk, in_progress, buffered_item,
                   tx_parked, src_abort, src_thread, chunk_calls, delivered>>
    /\ UNCHANGED <<mode, sideVars, addrVars, meta_calls, meta_outcome, dstVars, callerVars>>

\* abortable_stream: the abort is observed, the wrapped future is dropped with
\* its calls in flight, and the stream ends with the item Err(Aborted)
SrcObserveAbort ==
    /\ HasSource
    /\ src_abort
    /\ ~SrcResolved
    /\ src_pc' = "aborted"
    /\ in_progress' = <<>>
    /\ buffered_item' = None
    /\ with_state' = None
    /\ chan' = Append(chan, ErrItem("Aborted"))
    /\ chan_closed' = TRUE
    /\ src_result' = Append(src_result, "Aborted")
    /\ UNCHANGED <<src_url_ok, file_size, n, next_chunk, tx_parked, src_abort,
                   src_thread, chunk_calls, delivered>>
    /\ UNCHANGED <<mode, sideVars, addrVars, meta_calls, meta_outcome, dstVars, callerVars>>

\* line 72-73: block_on has returned and the spawned thread ends
SrcThreadExit ==
    /\ HasSource
    /\ src_thread = "running"
    /\ src_pc \in SrcTerminal
    /\ src_thread' = "exited"
    /\ UNCHANGED <<src_url_ok, src_pc, file_size, n, next_chunk, in_progress, buffered_item,
                   with_state, chan, tx_parked, chan_closed, src_result, src_abort,
                   chunk_calls, delivered>>
    /\ UNCHANGED <<mode, sideVars, addrVars, meta_calls, meta_outcome, dstVars, callerVars>>


-----------------------------------------------------------------------------
(* Downstream consumer of the source stream.                               *)

\* the consumer polls the TransferStream: the head of the channel is taken
\* and a parked sender is woken
ConsumerPull ==
    /\ mode = "source"
    /\ chan # <<>>
    /\ delivered' = Append(delivered, Head(chan))
    /\ chan' = Tail(chan)
    /\ tx_parked' = FALSE
    /\ UNCHANGED <<src_url_ok, src_pc, file_size, n, next_chunk, in_progress, buffered_item,
                   with_state, chan_closed, src_result, src_abort, src_thread,
                   meta_calls, meta_outcome, chunk_calls>>
    /\ UNCHANGED <<mode, sideVars, addrVars, dstVars, callerVars>>

-----------------------------------------------------------------------------
(* Destination worker.                                                     *)

\* the worker future is polled only while no abort was signalled
DstPolled == HasDestination /\ ~dst_abort

\* the sink has been resolved: the worker is in a terminal state
DstResolved == dst_pc \in DstTerminal

\* a slice count rounded down: the short last slice of an item is left out
SliceCount_Floor(len) == len \div chunk_size

\* line 94: number of slices of an item
SliceCount(len) == (len + chunk_size - 1) \div chunk_size

\* lines 97-99: slice number k of the item
Slice(item, k) ==
    LET start == k * chunk_size
        end == start + Min(Len(item) - start, chunk_size)
    IN  SubSeq(item, start + 1, end)

\* lines 96, 92: position of the loop once slice next_i - 1 has been uploaded
DstAfterUpload(next_i, len) == IF next_i < SliceCount(len) THEN "slicing" ELSE "open"

\* the call is started and the loop goes on without awaiting it
DstAfterIssue_NoAwait(next_i, len) == DstAfterUpload(next_i, len)

\* line 107: the call is awaited, the loop does not go on while it is in flight
DstAfterIssue(next_i, len) == "uploading"

\* an offset counted from the start of the current item
UploadOffset_PerItem(running, start) == start

\* line 102: the chunk carries the running offset of the transfer
UploadOffset(running, start) == running

\* abortable_sink: the result of the future is sent on res_tx
DstFinish(pc, outcome) ==
    /\ dst_pc' = pc
    /\ dst_result' = Append(dst_result, outcome)

\* lines 86-90
DstStart ==
    /\ DstPolled
    /\ dst_pc = "created"
    /\ IF UrlAccepted(dst_url_ok)
       THEN dst_pc' = "open" /\ UNCHANGED dst_result
       ELSE DstFinish("failed", "InvalidUrlError")
    /\ UNCHANGED <<dst_url_ok, rx, rx_closed, pushed, pushed_bytes, bytes, i, offset,
                   uploads, upload_calls, upload_log, dst_abort, dst_thread>>
    /\ UNCHANGED <<mode, sideVars, addrVars, srcVars, callerVars>>

\* lines 92-94: the next input item is taken; an error item ends the future
DstRecv ==
    /\ DstPolled
    /\ dst_pc = "open"
    /\ rx # <<>>
    /\ rx' = Tail(rx)
    /\ IF Head(rx).ok
       THEN /\ bytes' = Head(rx).data
            /\ i' = 0
            /\ dst_pc' = DstAfterUpload(0, Len(Head(rx).data))
            /\ UNCHANGED dst_result
       ELSE /\ DstFinish("failed", Head(rx).err)
            /\ UNCHANGED <<bytes, i>>
    /\ UNCHANGED <<dst_url_ok, rx_closed, pushed, pushed_bytes, offset, uploads,
                   upload_calls, upload_log, dst_abort, dst_thread>>
    /\ UNCHANGED <<mode, sideVars, addrVars, srcVars, callerVars>>

\* lines 92, 111: the input queue has ended
DstEndOfInput ==
    /\ DstPolled
    /\ dst_pc = "open"
    /\ rx = <<>>
    /\ rx_closed
    /\ DstFinish("completed", "Completed")
    /\ UNCHANGED <<dst_url_ok, rx, rx_closed, pushed, pushed_bytes, bytes, i, offset,
                   uploads, upload_calls, upload_log, dst_abort, dst_thread>>
    /\ UNCHANGED <<mode, sideVars, addrVars, srcVars, callerVars>>

\* lines 96-107: the next slice is cut and its UploadChunk call is issued
DstUpload ==
    /\ DstPolled
    /\ dst_pc = "slicing"
    /\ LET chunk == [offset |-> UploadOffset(offset, i * chunk_size),
                     content |-> Slice(bytes, i)]
       IN  /\ offset' = offset + Len(chunk.content)
           /\ uploads' = uploads \cup {[seq |-> Len(upload_calls) + 1, chunk |-> chunk]}
           /\ upload_calls' = Append(upload_calls, chunk)
    /\ i' = i + 1
    /\ dst_pc' = DstAfterIssue(i + 1, Len(bytes))
    /\ dst_addrs' = dst_addrs \cup {DstRemote}
    /\ UNCHANGED <<dst_url_ok, rx, rx_closed, pushed, pushed_bytes, bytes, upload_log,
                   dst_result, dst_abort, dst_thread>>
    /\ UNCHANGED <<mode, sideVars, src_url, dst_url, src_addrs, srcVars, callerVars>>

\* line 107 with a single `?`: only a failure of the bus ends the future
UploadFailed_BusOnly(outcome) == outcome \in {"bus_err", "timeout"}

\* line 107, `.await??`: a failure of the bus and an error returned by the
\* peer's handler both end the future
UploadFailed(outcome) == outcome # "ok"

\* line 107: an UploadChunk call resolves (`.await??`)
DstUploadReply(call, outcome) ==
    /\ HasDestination
    /\ call \in uploads
    /\ uploads' = uploads \ {call}
    /\ upload_log' = IF PeerHandled(outcome) THEN Append(upload_log, call.chunk)
                     ELSE upload_log
    /\ IF dst_pc \in DstTerminal \/ dst_abort
       THEN UNCHANGED <<dst_pc, dst_result>>
       ELSE IF UploadFailed(outcome)
            THEN DstFinish("failed", outcome)
            ELSE /\ dst_pc' = IF dst_pc = "uploading"
                              THEN DstAfterUpload(i, Len(bytes))
                              ELSE dst_pc
                 /\ UNCHANGED dst_result
    /\ UNCHANGED <<dst_url_ok, rx, rx_closed, pushed, pushed_bytes, bytes, i, offset,
                   upload_calls, dst_abort, dst_thread>>
    /\ UNCHANGED <<mode, sideVars, addrVars, srcVars, callerVars>>

\* abortable_sink: the abort is observed, the future is dropped with its
\* call in flight and the result channel gets Aborted
DstObserveAbort ==
    /\ HasDestination
    /\ dst_abort
    /\ ~DstResolved
    /\ uploads' = {}
    /\ DstFinish("aborted", "Aborted")
    /\ UNCHANGED <<dst_url_ok, rx, rx_closed, pushed, pushed_bytes, bytes, i, offset,
                   upload_calls, upload_log, dst_abort, dst_thread>>
    /\ UNCHANGED <<mode, sideVars, addrVars, srcVars, callerVars>>

\* lines 115-116: block_on has returned and the spawned thread ends
DstThreadExit ==
    /\ HasDestination
    /\ dst_thread = "running"
    /\ dst_pc \in DstTerminal
    /\ dst_thread' = "exited"
    /\ UNCHANGED <<dst_url_ok, dst_pc, rx, rx_closed, pushed, pushed_bytes, bytes, i,
                   offset, uploads, upload_calls, upload_log, dst_result, dst_abort>>
    /\ UNCHANGED <<mode, sideVars, addrVars, srcVars, callerVars>>

-----------------------------------------------------------------------------
(* The caller of the sink.                                                 *)

\* the sink's input channel takes an item while it is not over its buffer
SinkHasRoom == Len(rx) <= ChannelSize

\* the items a caller may push: position-tagged data of any length, or an error
CallerItems ==
    {OkItem([k \in 1..len |-> pushed_bytes + k]) : len \in 0..MaxItemLen}
        \cup {ErrItem("InputError")}

CallerPush(item) ==
    /\ mode = "destination"
    /\ pushed < MaxItems
    /\ ~rx_closed
    /\ dst_pc \notin DstTerminal
    /\ SinkHasRoom
    /\ rx' = Append(rx, item)
    /\ pushed' = pushed + 1
    /\ pushed_bytes' = pushed_bytes + (IF item.ok THEN Len(item.data) ELSE 0)
    /\ UNCHANGED <<dst_url_ok, dst_pc, rx_closed, bytes, i, offset, uploads, upload_calls,
                   upload_log, dst_result, dst_abort, dst_thread>>
    /\ UNCHANGED <<mode, sideVars, addrVars, srcVars, callerVars>>

CallerClose ==
    /\ mode = "destination"
    /\ ~rx_closed
    /\ rx_closed' = TRUE
    /\ UNCHANGED <<dst_url_ok, dst_pc, rx, pushed, pushed_bytes, bytes, i, offset, uploads,
                   upload_calls, upload_log, dst_result, dst_abort, dst_thread>>
    /\ UNCHANGED <<mode, sideVars, addrVars, srcVars, callerVars>>

\* piping: the caller forwards the stream into the sink; an error item of
\* the stream ends the forwarding and the sink is dropped
PipeForward ==
    /\ mode = "pipe"
    /\ chan # <<>>
    /\ ~rx_closed
    /\ SinkHasRoom
    /\ delivered' = Append(delivered, Head(chan))
    /\ chan' = Tail(chan)
    /\ tx_parked' = FALSE
    /\ IF Head(chan).ok
       THEN /\ rx' = Append(rx, Head(chan))
            /\ pushed' = pushed + 1
            /\ pushed_bytes' = pushed_bytes + Len(Head(chan).data)
            /\ UNCHANGED rx_closed
       ELSE /\ rx_closed' = TRUE
            /\ UNCHANGED <<rx, pushed, pushed_bytes>>
    /\ UNCHANGED <<src_url_ok, src_pc, file_size, n, next_chunk, in_progress, buffered_item,
                   with_state, chan_closed, src_result, src_abort, src_thread,
                   meta_calls, meta_outcome, chunk_calls>>
    /\ UNCHANGED <<dst_url_ok, dst_pc, bytes, i, offset, uploads, upload_calls,
                   upload_log, dst_result, dst_abort, dst_thread>>
    /\ UNCHANGED <<mode, sideVars, addrVars, callerVars>>

\* piping: the stream has ended, the sink is closed
PipeClose ==
    /\ mode = "pipe"
    /\ chan = <<>>
    /\ chan_closed
    /\ ~rx_closed
    /\ rx_closed' = TRUE
    /\ UNCHANGED <<dst_url_ok, dst_pc, rx, pushed, pushed_bytes, bytes, i, offset, uploads,
                   upload_calls, upload_log, dst_result, dst_abort, dst_thread>>
    /\ UNCHANGED <<mode, sideVars, addrVars, srcVars, callerVars>>

-----------------------------------------------------------------------------
(* Abort.  The caller aborts a transfer it runs on its own; the piped      *)
(* pair is followed without interruption from the caller.                  *)

\* abort() gives control back once the worker has resolved the stream or
\* the sink; nothing the caller holds lets it wait for the thread itself
\* (the JoinHandle of thread::spawn is dropped at lines 42 and 84)
SrcAbortMayReturn == SrcResolved

DstAbortMayReturn == DstResolved

AbortSource ==
    /\ mode = "source"
    /\ abort_calls < MaxAborts
    /\ ~src_aborting
    /\ src_abort' = TRUE
    /\ src_aborting' = TRUE
    /\ abort_calls' = abort_calls + 1
    /\ UNCHANGED <<src_url_ok, src_pc, file_size, n, next_chunk, in_progress, buffered_item,
                   with_state, chan, tx_parked, chan_closed, src_result, src_thread,
                   meta_calls, meta_outcome, chunk_calls, delivered>>
    /\ UNCHANGED <<mode, sideVars, addrVars, dstVars, src_abort_returned, dst_aborting, dst_abort_returned>>

AbortSourceReturn ==
    /\ src_aborting
    /\ SrcAbortMayReturn
    /\ src_aborting' = FALSE
    /\ src_abort_returned' = TRUE
    /\ UNCHANGED <<mode, sideVars, addrVars, srcVars, dstVars, abort_calls, dst_aborting, dst_abort_returned>>

AbortDestination ==
    /\ mode = "destination"
    /\ abort_calls < MaxAborts
    /\ ~dst_aborting
    /\ dst_abort' = TRUE
    /\ dst_aborting' = TRUE
    /\ abort_calls' = abort_calls + 1
    /\ UNCHANGED <<dst_url_ok, dst_pc, rx, rx_closed, pushed, pushed_bytes, bytes, i, offset,
                   uploads, upload_calls, upload_log, dst_result, dst_thread>>
    /\ UNCHANGED <<mode, sideVars, addrVars, srcVars, src_aborting, src_abort_returned, dst_abort_returned>>

AbortDestinationReturn ==
    /\ dst_aborting
    /\ DstAbortMayReturn
    /\ dst_aborting' = FALSE
    /\ dst_abort_returned' = TRUE
    /\ UNCHANGED <<mode, sideVars, addrVars, srcVars, dstVars, abort_calls, src_aborting, src_abort_returned>>

-----------------------------------------------------------------------------

SrcNext ==
    \/ SrcStart
    \/ \E outcome \in CallOutcomes : SrcMetadata(outcome)
    \/ SrcMetadataPanic
    \/ SrcIssue
    \/ \E k \in DOMAIN in_progress, outcome \in CallOutcomes : SrcChunkReply(k, outcome)
    \/ SrcYield
    \/ SrcSinkSend
    \/ SrcFlush
    \/ SrcComplete
    \/ SrcObserveAbort
    \/ SrcThreadExit
    \/ ConsumerPull

DstNext ==
    \/ DstStart
    \/ DstRecv
    \/ DstEndOfInput
    \/ DstUpload
    \/ \E call \in uploads, outcome \in UploadOutcomes : DstUploadReply(call, outcome)
    \/ DstObserveAbort
    \/ DstThreadExit
    \/ \E item \in CallerItems : CallerPush(item)
    \/ CallerClose
    \/ PipeForward
    \/ PipeClose

AbortNext ==
    \/ AbortSource
    \/ AbortSourceReturn
    \/ AbortDestination
    \/ AbortDestinationReturn

Next == SrcNext \/ DstNext \/ AbortNext

Spec == Init /\ [][Next]_vars

\* each worker thread runs its own event loop (System::new(..).block_on), and
\* an abort wakes the task: a signalled abort is eventually observed
FairSpec == Spec /\ WF_vars(SrcObserveAbort) /\ WF_vars(DstObserveAbort)

-----------------------------------------------------------------------------
(* Properties.                                                             *)

\* everything the source worker has put into the stream so far
Emitted == delivered \o chan

\* the bytes of chunk number k of the resource
ChunkBytes(k) ==
    SubSeq(File(file_size), k * chunk_size + 1, Min((k + 1) * chunk_size, file_size))

InFlight == {k \in DOMAIN in_progress : in_progress[k].st = "pending"}

AllOk(items) == \A j \in DOMAIN items : items[j].ok

\* C1: the j-th item the source emits is chunk j-1: as long as no fetch has
\* failed and the transfer is not aborted, the items delivered downstream are
\* the contents of chunks 0, 1, ... in index order, whatever the order in
\* which the GetChunk calls resolved; a completed transfer has delivered all
\* n of them once the consumer has drained the stream.
C1_EmissionInIndexOrder ==
    HasSource =>
        /\ \A j \in DOMAIN delivered :
              delivered[j].ok => delivered[j].data = ChunkBytes(j - 1)
        /\ (src_pc = "completed" /\ chan = <<>> /\ AllOk(delivered))
              => Len(delivered) = n

\* chunk 0 was delivered while chunk 2 had resolved before chunk 1
C1_Witness ==
    /\ mode = "source"
    /\ Len(delivered) = 1
    /\ delivered[1].ok
    /\ Len(in_progress) >= 2
    /\ in_progress[1].st = "pending"
    /\ in_progress[2].st = "ok"

\* C2: at most rx_buffer_sz GetChunk calls are issued and not yet resolved.
C2_WindowBound == Cardinality(InFlight) <= rx_buffer_sz

\* the window is full while chunks remain to be requested
C2_Witness ==
    /\ Cardinality(InFlight) = rx_buffer_sz
    /\ next_chunk < n

\* C3: a chunk-fetch failure (a bus failure or the handler's own GftpError)
\* is the terminal item of the stream: once the worker has emitted an error
\* the transfer is Failed (or Aborted), no call is in flight and nothing
\* follows the error.
C3_FetchFailureIsTerminal ==
    mode = "source" =>
        \A j \in DOMAIN Emitted :
            ~Emitted[j].ok =>
                /\ j = Len(Emitted)
                /\ src_pc \in {"failed", "aborted"}
                /\ InFlight = {}

\* C4: at most one UploadChunk call is in flight, every earlier call has
\* resolved successfully before the next is issued, and the peer handles the
\* calls in the order the slices were cut.
C4_SequentialUploads ==
    /\ Cardinality(uploads) <= 1
    /\ Len(upload_log) <= Len(upload_calls)
    /\ upload_log = SubSeq(upload_calls, 1, Len(upload_log))
    /\ uploads # {} => Len(upload_log) = Len(upload_calls) - 1

\* the third call is in flight after two were handled by the peer
C4_Witness ==
    /\ mode = "destination"
    /\ Len(upload_log) = 2
    /\ Cardinality(uploads) = 1
    /\ Len(upload_calls) = 3

RECURSIVE ContentBytes(_)
ContentBytes(calls) ==
    IF calls = <<>> THEN 0
    ELSE Len(calls[Len(calls)].content) + ContentBytes(SubSeq(calls, 1, Len(calls) - 1))

\* C5: the offset of every UploadChunk call is the number of content bytes of
\* the calls issued before it in the transfer, across input items, and every
\* slice holds between 1 and chunk_size bytes.
C5_RunningOffset ==
    \A k \in DOMAIN upload_calls :
        /\ upload_calls[k].offset = ContentBytes(SubSeq(upload_calls, 1, k - 1))
        /\ Len(upload_calls[k].content) >= 1
        /\ Len(upload_calls[k].content) <= chunk_size

\* two items of 2 * chunk_size + 1 bytes in all: the last call starts in the
\* second item at the offset where the first one ended (the scaled form of
\* 10000 bytes in slices of 4096: sizes c, c, 1 at offsets 0, c, 2c)
C5_Witness ==
    /\ mode = "destination"
    /\ pushed = 2
    /\ pushed_bytes = 2 * chunk_size + 1
    /\ Len(upload_calls) = 3
    /\ upload_calls[1] = [offset |-> 0, content |-> [k \in 1..chunk_size |-> k]]
    /\ upload_calls[2].offset = chunk_size
    /\ Len(upload_calls[2].content) = chunk_size
    /\ upload_calls[3] = [offset |-> 2 * chunk_size, content |-> <<2 * chunk_size + 1>>]

\* C6: a source transfer that completes has issued exactly
\* ceil(file_size / chunk_size) GetChunk calls, for every size the peer reports.
C6_ChunkCallCount ==
    (mode = "source" /\ src_pc = "completed")
        => Len(chunk_calls) = Ceil(file_size, chunk_size)

\* the bytes the peer holds after the uploads it handled, as (position, byte)
PeerBytes ==
    UNION {{<<upload_log[k].offset + j, upload_log[k].content[j]>> :
                j \in DOMAIN upload_log[k].content} : k \in DOMAIN upload_log}

PipeDone ==
    /\ mode = "pipe"
    /\ src_pc = "completed"
    /\ dst_pc = "completed"
    /\ AllOk(delivered)

\* C7: a source piped into a destination, both completed without failure:
\* the peer has received ceil(file_size / chunk_size) chunks which, written at
\* their offsets, are exactly the file_size bytes of the resource.
C7_RoundTrip ==
    PipeDone =>
        /\ PeerBytes = {<<k, File(file_size)[k]>> : k \in 1..file_size}
        /\ Len(upload_log) = Ceil(file_size, chunk_size)

OkItems(items) == SelectSeq(items, LAMBDA it : it.ok)

AbortObserved(items) == \E j \in DOMAIN items : items[j] = ErrItem("Aborted")

\* C8: an aborted transfer reaches a terminal state; from the abort on the
\* worker issues no GetMetadata, GetChunk or UploadChunk call and puts no
\* chunk into the stream, and once the consumer has seen the abort it is
\* handed nothing more.
C8_AbortStopsTransfer ==
    /\ [][src_abort => (chunk_calls' = chunk_calls /\ meta_calls' = meta_calls)]_vars
    /\ [][src_abort => OkItems(delivered' \o chan') = OkItems(Emitted)]_vars
    /\ [][AbortObserved(delivered) => delivered' = delivered]_vars
    /\ [][dst_abort => upload_calls' = upload_calls]_vars
    /\ (src_abort ~> src_pc \in SrcTerminal)
    /\ (dst_abort ~> dst_pc \in DstTerminal)

\* the stream was aborted with two calls in flight and a chunk still queued,
\* and the consumer has pulled the terminal item
C8_Witness ==
    /\ mode = "source"
    /\ src_pc = "aborted"
    /\ Len(chunk_calls) = rx_buffer_sz
    /\ Len(chunk_calls) < n
    /\ AbortObserved(delivered)
    /\ chan = <<>>

\* C9: when abort() has returned to the caller the worker thread has exited.
C9_ThreadExitedWhenAbortReturns ==
    /\ src_abort_returned => src_thread = "exited"
    /\ dst_abort_returned => dst_thread = "exited"

Outcome(pc) ==
    CASE pc = "completed" -> <<"Completed">>
      [] pc = "aborted" -> <<"Aborted">>
      [] pc = "failed" -> <<"Failed">>
      [] OTHER -> <<>>

\* C10: however often and whenever abort is called, the stream or sink is
\* resolved at most once, and a transfer that is Completed, Failed or Aborted
\* has been resolved exactly once, with that outcome.
C10_ResolvedOnce ==
    /\ Len(src_result) <= 1
    /\ Len(dst_result) <= 1
    /\ src_pc \in {"completed", "failed", "aborted"} =>
          src_result = Outcome(src_pc) /\ chan_closed
    /\ dst_pc \in DstTerminal =>
          (Len(dst_result) = 1 /\ (dst_pc # "failed" => dst_result = Outcome(dst_pc)))
    /\ src_pc \notin SrcTerminal => src_result = <<>>
    /\ dst_pc \notin DstTerminal => dst_result = <<>>

\* the worker had just completed a transfer of several chunks when abort was
\* called, twice: the outcome stays the single Completed
C10_Witness ==
    /\ mode = "source"
    /\ abort_calls = 2
    /\ src_abort_returned
    /\ src_pc = "completed"
    /\ src_result = <<"Completed">>
    /\ Len(delivered) = n
    /\ n >= 2

-----------------------------------------------------------------------------
(* The source as a state machine, and the exchange it starts with.         *)

MetadataFailed == meta_outcome \in {"remote_err", "bus_err"}

\* C14 as stated: send is fire-and-forget, so the failure of the GetMetadata
\* message sent at line 48 is only logged and does not change what the sender
\* does next: it never makes the transfer fail.
C14_SendIsFireAndForget ==
    (HasSource /\ MetadataFailed) => src_pc # "failed"

\* C14, amended: the send of line 48 is a request-response exchange whose
\* future the sender awaits: while it is unresolved the worker issues no other
\* call and emits nothing, and its failure is propagated: the transfer ends
\* Failed with that error as its item and without any GetChunk call.
C14_SendIsAwaited ==
    HasSource =>
        /\ src_pc = "metadata" =>
              (meta_outcome = "none" /\ chunk_calls = <<>> /\ Emitted = <<>>)
        /\ MetadataFailed =>
              /\ src_pc = "failed"
              /\ src_result = <<"Failed">>
              /\ Emitted = <<ErrItem(meta_outcome)>>
              /\ chunk_calls = <<>>

\* the peer's handler answered GetMetadata with an error and the consumer has
\* pulled the resulting terminal item
C14_Witness ==
    /\ mode = "source"
    /\ meta_outcome = "remote_err"
    /\ src_result = <<"Failed">>
    /\ delivered = <<ErrItem("remote_err")>>

-----------------------------------------------------------------------------
(* The destination's end of input.                                         *)

\* C18: in the destination, Completed is resolved exactly once and only when
\* the input queue has ended and is drained, no upload is in flight, and
\* every byte of every received item has been handled by the peer at its
\* position, in the order the slices were cut; a transfer that ends
\* otherwise has an abort or an error as its cause; and when the input has
\* ended with nothing failed, the worker can take the step that resolves
\* Completed.
C18_CompletedAfterAllUploads ==
    HasDestination =>
        /\ dst_pc = "completed" =>
              /\ dst_result = <<"Completed">>
              /\ rx = <<>> /\ rx_closed
              /\ uploads = {}
              /\ upload_log = upload_calls
              /\ PeerBytes = {<<k, k>> : k \in 1..pushed_bytes}
        /\ dst_pc = "aborted" => dst_abort
        /\ dst_pc = "failed" =>
              dst_result[1] \in {"InvalidUrlError", "InputError"} \cup (UploadOutcomes \ {"ok"})
        /\ (dst_pc = "open" /\ rx = <<>> /\ rx_closed /\ ~dst_abort)
              => ENABLED DstEndOfInput

\* two items were pushed, the first one longer than two slices, and the
\* transfer completed after the peer handled all of their bytes
C18_Witness ==
    /\ mode = "destination"
    /\ dst_pc = "completed"
    /\ pushed = MaxItems
    /\ pushed_bytes > 2 * chunk_size + 1
    /\ Len(upload_log) >= 4

-----------------------------------------------------------------------------
(* Byte ranges of the source.                                              *)

\* the chunks the source has emitted so far, in emission order
EmittedChunks == OkItems(Emitted)

\* C19: the byte ranges requested by the source tile the resource: the k-th
\* GetChunk request asks for chunk_size bytes at offset (k - 1) * chunk_size,
\* each request starting where the one before ended; and the chunks emitted,
\* taken in emission order, are contiguous: the first starts at byte 1 of
\* the resource and each one starts right after the end of the one before.
C19_RangesTile ==
    HasSource =>
        /\ \A k \in DOMAIN chunk_calls :
              /\ chunk_calls[k].offset = (k - 1) * chunk_size
              /\ chunk_calls[k].size = chunk_size
              /\ k > 1 => chunk_calls[k].offset
                              = chunk_calls[k - 1].offset + chunk_calls[k - 1].size
        /\ \A j \in DOMAIN EmittedChunks :
              LET c == EmittedChunks[j].data
              IN  /\ c # <<>>
                  /\ c[1] = IF j = 1 THEN 1
                            ELSE EmittedChunks[j - 1].data[Len(EmittedChunks[j - 1].data)] + 1
                  /\ \A b \in 2..Len(c) : c[b] = c[b - 1] + 1

-----------------------------------------------------------------------------
(* Addressing: transfers of any pair of urls.                              *)

\* the resource sizes of the transfers whose addressing is examined
AddrFileSizes == {chunk_size + 1, U64Modulus - 1}

\* transfers with well-formed urls naming any node and any token
AddrInit ==
    /\ TransferInit
    /\ SideIdle
    /\ src_url_ok /\ dst_url_ok
    /\ file_size \in AddrFileSizes \cup {0}
    /\ HasSource => file_size \in AddrFileSizes
    /\ src_url \in IF HasSource THEN Urls ELSE {Url("n1", "t1")}
    /\ dst_url \in IF HasDestination THEN Urls ELSE {Url("n1", "t1")}

AddrSpec == AddrInit /\ [][Next]_vars

\* the service address a url stands for
AddrOf(url) == [node |-> url.node, path |-> <<"public", "gftp", url.token>>]

\* C20: every request of a transfer (GetMetadata, GetChunk, UploadChunk) is
\* sent to one address, which is a function of the node id and the token of
\* the transfer's url alone; two transfers whose urls carry different tokens
\* never send to the same service path, and two with the same url send to
\* the same address.
C20_OneAddressPerTransfer ==
    /\ src_addrs \subseteq {AddrOf(src_url)}
    /\ dst_addrs \subseteq {AddrOf(dst_url)}
    /\ (meta_calls > 0 \/ chunk_calls # <<>>) => src_addrs = {AddrOf(src_url)}
    /\ upload_calls # <<>> => dst_addrs = {AddrOf(dst_url)}
    /\ src_url.token # dst_url.token =>
          \A a \in src_addrs, b \in dst_addrs : a.path # b.path
    /\ src_url = dst_url => \A a \in src_addrs, b \in dst_addrs : a = b

\* a download piped into an upload on the same node under another token:
\* both workers have sent requests, the source several of them
C20_Witness ==
    /\ mode = "pipe"
    /\ src_url.node = dst_url.node
    /\ src_url.token = "t2"
    /\ dst_url.token = "t1"
    /\ Len(chunk_calls) >= 2
    /\ upload_calls # <<>>
    /\ src_addrs # {}
    /\ dst_addrs # {}

-----------------------------------------------------------------------------
(* The service bus: binding handlers, and the exchange of one call.        *)
(* The payment REST handlers send_invoice and send_debit_note are the      *)
(* caller: core/payment/src/api/provider.rs.                               *)

\* largest query.timeout (seconds) a request carries; 0 stands for no timeout
MaxTimeout == 1

QueryTimeouts == 0..MaxTimeout

PayOps == {"send_invoice", "send_debit_note"}

\* the identity of the REST caller, and what the stored issuer_id may be
Identity == "me"

IssuerIds == {"me", "other", "unparsable"}

\* recipient_id of a stored document: a node id, or a string that is none
RecipientIds == {"peer", "unparsable"}

\* issuer_id.parse().ok(): a node id, or None for a string that is none
ParseOk(id) == IF id = "unparsable" THEN None ELSE [some |-> id]

\* the four ways a call resolves; a remote error is the handler's own
\* SendError, BadRequest or another variant
Outcomes == {"Success", "Timeout", "Transport", "Remote_BadRequest", "Remote_Other"}

HandlerResults == {"ok", "bad_request", "other_err"}

OutcomeOf(result) ==
    CASE result = "ok" -> "Success"
      [] result = "bad_request" -> "Remote_BadRequest"
      [] OTHER -> "Remote_Other"

\* bind: the request is issued
BindCall(b) ==
    /\ mode = "none"
    /\ binds[b] = "none"
    /\ binds' = [binds EXCEPT ![b] = "pending"]
    /\ UNCHANGED <<registry, call_state, handled_by, reply, pending, caller_outcomes,
                   late_discarded>>
    /\ UNCHANGED <<mode, childVars, actorVars, srcVars, dstVars, callerVars, addrVars, payVars>>

\* a registry in which a later bind replaces the handler bound before
BindGranted_Always(addr) == TRUE

\* bind succeeds on an address nobody is bound to
BindGranted(addr) == registry[addr] = "none"

\* bind: the registry serves the request, one request at a time
BindResolve(b) ==
    /\ mode = "none"
    /\ binds[b] = "pending"
    /\ IF BindGranted(b[2])
       THEN /\ registry' = [registry EXCEPT ![b[2]] = b[1]]
            /\ binds' = [binds EXCEPT ![b] = "Ok"]
       ELSE /\ binds' = [binds EXCEPT ![b] = "AddressConflict"]
            /\ UNCHANGED registry
    /\ UNCHANGED <<call_state, handled_by, reply, pending, caller_outcomes, late_discarded>>
    /\ UNCHANGED <<mode, childVars, actorVars, srcVars, dstVars, callerVars, addrVars, payVars>>

\* provider.rs 281-285: the timeout handed to the bus, in milliseconds
InvoiceTimeout(q) == IF q > 0 THEN [some |-> q * 1000] ELSE None

\* crate::utils::with_timeout: the whole block runs under the request's timeout
DebitNoteTimeout(q) == IF q > 0 THEN [some |-> q] ELSE None

TimeoutOf(op, q) == IF op = "send_invoice" THEN InvoiceTimeout(q) ELSE DebitNoteTimeout(q)

\* with_timeout answers an elapsed timeout with GatewayTimeout
WithTimeoutResponse == 504

\* the handler goes on to update_status instead of returning a response
Continue == 0

\* send_invoice that goes on to update_status after a transport failure
InvoiceResponse_TransportContinues(outcome) ==
    CASE outcome = "Timeout" -> 504
      [] outcome = "Remote_BadRequest" -> 400
      [] outcome \in {"Success", "Transport"} -> Continue
      [] OTHER -> 500

\* send_invoice where an elapsed timeout is not matched and falls through
InvoiceResponse_TimeoutFallsThrough(outcome) ==
    CASE outcome \in {"Success", "Timeout"} -> Continue
      [] outcome = "Remote_BadRequest" -> 400
      [] OTHER -> 500

\* provider.rs 294-301: the response send_invoice returns for an outcome
InvoiceResponse(outcome) ==
    CASE outcome = "Timeout" -> 504
      [] outcome = "Remote_BadRequest" -> 400
      [] outcome = "Success" -> Continue
      [] OTHER -> 500

\* send_debit_note where BadRequest is answered like any other error
DebitNoteResponse_NoBadRequest(outcome) ==
    CASE outcome = "Timeout" -> WithTimeoutResponse
      [] outcome = "Success" -> Continue
      [] OTHER -> 500

\* provider.rs 148-165: the response send_debit_note returns for an outcome
DebitNoteResponse(outcome) ==
    CASE outcome = "Timeout" -> WithTimeoutResponse
      [] outcome = "Transport" -> 500
      [] outcome = "Success" -> Continue
      [] outcome = "Remote_BadRequest" -> 400
      [] OTHER -> 500

Response(op, outcome) ==
    IF op = "send_invoice" THEN InvoiceResponse(outcome) ELSE DebitNoteResponse(outcome)

\* a handler that lets every caller through
IsIssuer_Anyone(id) == TRUE

\* provider.rs 140-146, 271-277: the caller is the issuer of the document
IsIssuer(id) == [some |-> Identity] = ParseOk(id)

\* the handler returns an HttpResponse
Respond(code) ==
    /\ http' = Append(http, code)
    /\ pay_pc' = "done"

\* provider.rs 131-152, 263-290: dao.get resolves; the issuer check; the
\* message to the recipient is handed to the bus; recipient_id.parse().unwrap()
\* panics on a recipient_id that is no node id, and the handler answers nothing
PayGet(result) ==
    /\ mode = "none"
    /\ pay_pc = "get"
    /\ doc_lookup' = result
    /\ IF result = "found" /\ IsIssuer(doc_issuer)
       THEN IF ParseOk(doc_recipient) = None
            THEN /\ pay_pc' = "panicked"
                 /\ UNCHANGED <<http, call_state, pending>>
            ELSE /\ pay_pc' = "calling"
                 /\ call_state' = "sent"
                 /\ pending' = TRUE
                 /\ UNCHANGED http
       ELSE /\ Respond(CASE result = "missing" -> 404
                         [] result = "db_err" -> 500
                         [] OTHER -> 401)
            /\ UNCHANGED <<call_state, pending>>
    /\ UNCHANGED <<registry, binds, handled_by, reply, caller_outcomes, late_discarded>>
    /\ UNCHANGED <<pay_op, pay_timeout, doc_issuer, doc_recipient, doc_status, update_calls>>
    /\ UNCHANGED <<mode, childVars, actorVars, srcVars, dstVars, callerVars, addrVars>>

\* a bus that hands every reply of a call to its caller
CallerWaiting_Always == TRUE

\* the PendingCall record of the call exists: nothing has resolved it
CallerWaiting == pending

\* the call resolves for the caller, and the handler goes on from its await
PayResolved(outcome) ==
    /\ pending' = FALSE
    /\ caller_outcomes' = Append(caller_outcomes, outcome)
    /\ IF Response(pay_op, outcome) = Continue
       THEN /\ pay_pc' = "updating"
            /\ update_calls' = update_calls + 1
            /\ UNCHANGED http
       ELSE /\ Respond(Response(pay_op, outcome))
            /\ UNCHANGED update_calls
    /\ UNCHANGED <<pay_op, pay_timeout, doc_issuer, doc_recipient, doc_lookup, doc_status>>

PayWaits == UNCHANGED <<pending, caller_outcomes, payVars>>

\* the bus dispatches the request: to the handler bound to the address, or,
\* with nobody bound, back to the caller as a transport failure
BusRoute ==
    /\ mode = "none"
    /\ call_state = "sent"
    /\ IF registry["payment"] = "none"
       THEN /\ call_state' = "closed"
            /\ UNCHANGED handled_by
            /\ IF CallerWaiting THEN PayResolved("Transport") ELSE PayWaits
       ELSE /\ call_state' = "handling"
            /\ handled_by' = registry["payment"]
            /\ PayWaits
    /\ UNCHANGED <<registry, binds, reply, late_discarded>>
    /\ UNCHANGED <<mode, childVars, actorVars, srcVars, dstVars, callerVars, addrVars>>

\* the bound handler completes, with Ok or with its own SendError
BusHandle(result) ==
    /\ mode = "none"
    /\ call_state = "handling"
    /\ call_state' = "replied"
    /\ reply' = result
    /\ UNCHANGED <<registry, binds, handled_by, pending, caller_outcomes, late_discarded>>
    /\ UNCHANGED <<mode, childVars, actorVars, srcVars, dstVars, callerVars, addrVars, payVars>>

\* the reply arrives at the caller's bus: it resolves the call, or, the
\* call having been resolved already, it is dropped
BusDeliver ==
    /\ mode = "none"
    /\ call_state = "replied"
    /\ call_state' = "closed"
    /\ IF CallerWaiting
       THEN PayResolved(OutcomeOf(reply)) /\ UNCHANGED late_discarded
       ELSE PayWaits /\ late_discarded' = TRUE
    /\ UNCHANGED <<registry, binds, handled_by, reply>>
    /\ UNCHANGED <<mode, childVars, actorVars, srcVars, dstVars, callerVars, addrVars>>

\* the transport fails under a call that waits: peer unreachable, connection lost
BusTransportFail ==
    /\ mode = "none"
    /\ call_state \in {"sent", "handling", "replied"}
    /\ CallerWaiting
    /\ call_state' = "closed"
    /\ PayResolved("Transport")
    /\ UNCHANGED <<registry, binds, handled_by, reply, late_discarded>>
    /\ UNCHANGED <<mode, childVars, actorVars, srcVars, dstVars, callerVars, addrVars>>

\* provider.rs 289, 148: the timeout elapses while the call is awaited; the
\* request or its reply stays where it is
PayTimerFires ==
    /\ mode = "none"
    /\ pay_pc = "calling"
    /\ TimeoutOf(pay_op, pay_timeout) # None
    /\ CallerWaiting
    /\ PayResolved("Timeout")
    /\ UNCHANGED <<registry, binds, call_state, handled_by, reply, late_discarded>>
    /\ UNCHANGED <<mode, childVars, actorVars, srcVars, dstVars, callerVars, addrVars>>

\* provider.rs 148, 166-168: in send_debit_note the timeout also covers
\* update_status; the update it abandons may or may not reach the database
PayTimerFiresInUpdate(applied) ==
    /\ mode = "none"
    /\ pay_op = "send_debit_note"
    /\ pay_pc = "updating"
    /\ TimeoutOf(pay_op, pay_timeout) # None
    /\ Respond(WithTimeoutResponse)
    /\ doc_status' = IF applied THEN "Received" ELSE doc_status
    /\ UNCHANGED <<pay_op, pay_timeout, doc_issuer, doc_recipient, doc_lookup, update_calls>>
    /\ UNCHANGED <<mode, childVars, actorVars, srcVars, dstVars, callerVars, addrVars, busVars>>

\* provider.rs 166-172, 303-309: update_status resolves
PayUpdate(result) ==
    /\ mode = "none"
    /\ pay_pc = "updating"
    /\ IF result = "ok"
       THEN doc_status' = "Received" /\ Respond(200)
       ELSE UNCHANGED doc_status /\ Respond(500)
    /\ UNCHANGED <<pay_op, pay_timeout, doc_issuer, doc_recipient, doc_lookup, update_calls>>
    /\ UNCHANGED <<mode, childVars, actorVars, srcVars, dstVars, callerVars, addrVars, busVars>>

\* a REST request has arrived at one of the two handlers; nothing is bound
BusInit ==
    /\ TransferIdle
    /\ ChildIdle
    /\ ActorIdle
    /\ registry = [a \in BusAddrs |-> "none"]
    /\ binds = [b \in BindCalls |-> "none"]
    /\ call_state = "none"
    /\ handled_by = "none"
    /\ reply = "none"
    /\ pending = FALSE
    /\ caller_outcomes = <<>>
    /\ late_discarded = FALSE
    /\ pay_op \in PayOps
    /\ pay_timeout \in QueryTimeouts
    /\ doc_issuer \in IssuerIds
    /\ doc_recipient \in RecipientIds
    /\ doc_lookup = "none"
    /\ pay_pc = "get"
    /\ http = <<>>
    /\ doc_status = "Issued"
    /\ update_calls = 0

BusNext ==
    \/ \E b \in BindCalls : BindCall(b)
    \/ \E b \in BindCalls : BindResolve(b)
    \/ \E result \in {"found", "missing", "db_err"} : PayGet(result)
    \/ BusRoute
    \/ \E result \in HandlerResults : BusHandle(result)
    \/ BusDeliver
    \/ BusTransportFail
    \/ PayTimerFires
    \/ \E applied \in BOOLEAN : PayTimerFiresInUpdate(applied)
    \/ \E result \in {"ok", "db_err"} : PayUpdate(result)

BusSpec == BusInit /\ [][BusNext]_vars

\* the bus and the peer's handler make progress on a request they hold
BusFairSpec ==
    /\ BusSpec
    /\ WF_vars(BusRoute)
    /\ WF_vars(\E result \in HandlerResults : BusHandle(result))
    /\ WF_vars(BusDeliver)

-----------------------------------------------------------------------------
(* Properties of the bus and of the payment handlers.                      *)

\* the bind calls to an address that have been served with the given result
BindsWith(addr, result) == {b \in BindCalls : b[2] = addr /\ binds[b] = result}

\* C11: of the bind calls to one address, in whatever order they are issued
\* and served, exactly one succeeds and every other one fails with
\* AddressConflict; a failed bind leaves the registry as it was and a bound
\* address keeps its handler, so the first handler bound is the one a later
\* call to the address is dispatched to.
C11_OneBindWins ==
    /\ [](\A a \in BusAddrs :
             /\ Cardinality(BindsWith(a, "Ok")) <= 1
             /\ BindsWith(a, "AddressConflict") # {} => Cardinality(BindsWith(a, "Ok")) = 1
             /\ \A b \in BindsWith(a, "Ok") : registry[a] = b[1]
             /\ BindsWith(a, "Ok") = {} => registry[a] = "none")
    /\ [][\A b \in BindCalls :
             (binds[b] = "pending" /\ binds'[b] = "AddressConflict") => registry' = registry]_vars
    /\ [][\A a \in BusAddrs : registry[a] # "none" => registry'[a] = registry[a]]_vars
    /\ [](handled_by # "none" =>
             (handled_by = registry["payment"] /\ binds[<<handled_by, "payment">>] = "Ok"))

\* three handlers asked for the payment address: h2 won, the other two were
\* refused, and the call was dispatched to h2 and answered
C11_Witness ==
    /\ binds[<<"h2", "payment">>] = "Ok"
    /\ binds[<<"h1", "payment">>] = "AddressConflict"
    /\ binds[<<"h3", "payment">>] = "AddressConflict"
    /\ binds[<<"h1", "quit">>] = "Ok"
    /\ handled_by = "h2"
    /\ caller_outcomes = <<"Success">>

\* C12: a call whose timeout elapses while it waits resolves with Timeout;
\* from then on its outcome is final: a reply that arrives later is dropped,
\* the caller's outcome stays the single Timeout, and the handler's answer
\* stays 504 with the stored status untouched.
C12_TimeoutIsFinal ==
    /\ []((\E j \in DOMAIN caller_outcomes : caller_outcomes[j] = "Timeout") =>
             /\ caller_outcomes = <<"Timeout">>
             /\ ~pending
             /\ http = <<504>>
             /\ doc_status = "Issued"
             /\ update_calls = 0)
    /\ [][(pending /\ ~pending' /\ call_state' = call_state)
             => caller_outcomes' = <<"Timeout">>]_vars
    /\ [][(caller_outcomes = <<"Timeout">>) =>
             (caller_outcomes' = caller_outcomes /\ http' = http /\ doc_status' = doc_status)]_vars
    /\ [][(late_discarded' /\ ~late_discarded) =>
             (~pending /\ caller_outcomes' = caller_outcomes /\ http' = http)]_vars

\* send_invoice timed out while the recipient's handler was running; the
\* handler then answered Ok and that reply was dropped
C12_Witness ==
    /\ pay_op = "send_invoice"
    /\ caller_outcomes = <<"Timeout">>
    /\ reply = "ok"
    /\ late_discarded
    /\ http = <<504>>

\* C13: a call resolves with one outcome out of Success, Timeout, Transport
\* and Remote(E) and never with a second one; every call that waits is
\* eventually resolved; a call dispatched while nobody is bound to its address
\* resolves with Transport.
C13_ExactlyOneOutcome ==
    /\ [](Len(caller_outcomes) <= 1)
    /\ [](\A j \in DOMAIN caller_outcomes : caller_outcomes[j] \in Outcomes)
    /\ [](pending => caller_outcomes = <<>>)
    /\ []((call_state # "none" /\ ~pending) => Len(caller_outcomes) = 1)
    /\ [][(pending /\ call_state = "sent" /\ call_state' # "sent"
              /\ registry["payment"] = "none") => caller_outcomes' = <<"Transport">>]_vars
    /\ (pending ~> (~pending /\ Len(caller_outcomes) = 1))

\* send_debit_note without a timeout called a recipient address nobody was
\* bound to, and got a transport failure
C13_Witness ==
    /\ pay_op = "send_debit_note"
    /\ pay_timeout = 0
    /\ registry["payment"] = "none"
    /\ call_state = "closed"
    /\ handled_by = "none"
    /\ caller_outcomes = <<"Transport">>
    /\ http = <<500>>

\* C15: in send_invoice and send_debit_note the outcome of the exchange with
\* the recipient decides the response: Timeout gives 504, a remote
\* SendError::BadRequest gives 400, a transport failure or another remote
\* error gives 500.
C15_HttpMapping ==
    (pay_pc = "done" /\ caller_outcomes # <<>>) =>
        /\ caller_outcomes[1] = "Timeout" => http = <<504>>
        /\ caller_outcomes[1] = "Remote_BadRequest" => http = <<400>>
        /\ caller_outcomes[1] \in {"Transport", "Remote_Other"} => http = <<500>>

\* the recipient's handler refused a debit note with BadRequest
C15_Witness ==
    /\ pay_op = "send_debit_note"
    /\ caller_outcomes = <<"Remote_BadRequest">>
    /\ http = <<400>>

-----------------------------------------------------------------------------
(* Supervised child processes: AbortableChild and run()                    *)
(* (golem_cli/src/service.rs).                                             *)

\* buffer argument of mpsc::channel for the end-of-process notifications
EventChannelSize == 1

\* service.rs 128-129: the send_term argument each child is created with
send_term(c) == c = "yagna"

\* the exit status of a process that has ended
ExitStatus(p) == IF p = "killed" THEN "Killed" ELSE "Exited"

\* the child ends by itself, at any time: on its own, on SIGTERM, on the
\* terminal's ctrl-c
ProcExit(c) ==
    /\ proc[c] = "running"
    /\ proc' = [proc EXCEPT ![c] = "exited"]
    /\ UNCHANGED <<linux, term_sent, task, timer, abort_st, abort_result, abort_ret,
                   events, ctrl_c, run_pc, exit_code>>
    /\ UNCHANGED <<mode, srcVars, dstVars, callerVars, addrVars, busVars, payVars, actorVars>>

CtrlC ==
    /\ run_pc \in {"waiting", "abort_provider", "abort_yagna"}
    /\ ~ctrl_c
    /\ ctrl_c' = TRUE
    /\ UNCHANGED <<linux, proc, term_sent, task, timer, abort_st, abort_result, abort_ret,
                   events, run_pc, exit_code>>
    /\ UNCHANGED <<mode, srcVars, dstVars, callerVars, addrVars, busVars, payVars, actorVars>>

\* service.rs 139-145: run() leaves its select on ctrl-c or on a
\* notification (ctrl-c is polled first) and calls provider.abort(), which
\* sends its reply channel to the task (lines 77-78)
RunWake ==
    /\ run_pc = "waiting"
    /\ ctrl_c \/ events > 0
    /\ events' = IF ctrl_c THEN events ELSE events - 1
    /\ run_pc' = "abort_provider"
    /\ abort_st' = [abort_st EXCEPT !["provider"] = "waiting"]
    /\ UNCHANGED <<linux, proc, term_sent, task, timer, abort_result, abort_ret, ctrl_c,
                   exit_code>>
    /\ UNCHANGED <<mode, srcVars, dstVars, callerVars, addrVars, busVars, payVars, actorVars>>

\* futures mpsc: a sender parks itself when its send takes the channel over
\* its buffer, and send() resolves, through its flush, once it is unparked
EventSenderParked(k) == k > EventChannelSize

\* service.rs 54-57: the child ended while the task was in its first select
\* (the child is polled before the abort request): the task sends one
\* notification; with the sender not parked the send resolves and the task
\* ends, dropping the receiver of the abort request held by the match
TaskChildExitedEarly(c) ==
    /\ task[c] = "select"
    /\ proc[c] # "running"
    /\ events' = events + 1
    /\ task' = [task EXCEPT ![c] = IF EventSenderParked(events')
                                   THEN "notifying" ELSE "ended"]
    /\ UNCHANGED <<linux, proc, term_sent, timer, abort_st, abort_result, abort_ret, ctrl_c,
                   run_pc, exit_code>>
    /\ UNCHANGED <<mode, srcVars, dstVars, callerVars, addrVars, busVars, payVars, actorVars>>

\* service.rs 57-59: the parked send resolves once run() has taken a
\* notification off the channel, or has returned and dropped event_rx; the
\* task ends
TaskNotified(c) ==
    /\ task[c] = "notifying"
    /\ ~EventSenderParked(events) \/ run_pc = "done"
    /\ task' = [task EXCEPT ![c] = "ended"]
    /\ UNCHANGED <<linux, proc, term_sent, timer, abort_st, abort_result, abort_ret, events,
                   ctrl_c, run_pc, exit_code>>
    /\ UNCHANGED <<mode, srcVars, dstVars, callerVars, addrVars, busVars, payVars, actorVars>>

\* service.rs 36-43: SIGTERM is sent under cfg(target_os = "linux") if send_term
SendsTerm(c) == linux /\ send_term(c)

\* service.rs 61-65, 36-44: the abort request arrived while the child runs:
\* wait_and_kill starts, SIGTERM is sent if it is to be, the timer is started
TaskSeesAbort(c) ==
    /\ task[c] = "select"
    /\ proc[c] = "running"
    /\ abort_st[c] = "waiting"
    /\ term_sent' = [term_sent EXCEPT ![c] = SendsTerm(c)]
    /\ timer' = [timer EXCEPT ![c] = "running"]
    /\ task' = [task EXCEPT ![c] = "grace"]
    /\ UNCHANGED <<linux, proc, abort_st, abort_result, abort_ret, events, ctrl_c, run_pc,
                   exit_code>>
    /\ UNCHANGED <<mode, srcVars, dstVars, callerVars, addrVars, busVars, payVars, actorVars>>

\* the delay of line 44 elapses
TimerFires(c) ==
    /\ task[c] = "grace"
    /\ timer[c] = "running"
    /\ timer' = [timer EXCEPT ![c] = "fired"]
    /\ UNCHANGED <<linux, proc, term_sent, task, abort_st, abort_result, abort_ret, events,
                   ctrl_c, run_pc, exit_code>>
    /\ UNCHANGED <<mode, srcVars, dstVars, callerVars, addrVars, busVars, payVars, actorVars>>

\* a wait_and_kill that kills without waiting for the timer
KillDue_NoGrace(c) == TRUE

\* service.rs 44-45: select yields the timer (polled first) once it has fired
KillDue(c) == timer[c] = "fired"

\* service.rs 49, 65: the child ended before the timer fired: its exit
\* status is the result, sent to abort()
TaskGraceExit(c) ==
    /\ task[c] = "grace"
    /\ ~KillDue(c)
    /\ proc[c] # "running"
    /\ abort_result' = [abort_result EXCEPT ![c] = ExitStatus(proc[c])]
    /\ task' = [task EXCEPT ![c] = "ended"]
    /\ timer' = [timer EXCEPT ![c] = "off"]
    /\ UNCHANGED <<linux, proc, term_sent, abort_st, abort_ret, events, ctrl_c, run_pc,
                   exit_code>>
    /\ UNCHANGED <<mode, srcVars, dstVars, callerVars, addrVars, busVars, payVars, actorVars>>

\* service.rs 45-47: the timer won: child.kill(); a kill that fails ends
\* wait_and_kill with the error (`?`), a kill of a child that has ended by
\* itself in the meantime changes nothing
TaskKill(c, ok) ==
    /\ task[c] = "grace"
    /\ KillDue(c)
    /\ IF ok
       THEN /\ proc' = [proc EXCEPT ![c] = IF proc[c] = "running" THEN "killed" ELSE proc[c]]
            /\ task' = [task EXCEPT ![c] = "kill_wait"]
            /\ UNCHANGED abort_result
       ELSE /\ abort_result' = [abort_result EXCEPT ![c] = "KillError"]
            /\ task' = [task EXCEPT ![c] = "ended"]
            /\ UNCHANGED proc
    /\ UNCHANGED <<linux, term_sent, timer, abort_st, abort_ret, events, ctrl_c, run_pc,
                   exit_code>>
    /\ UNCHANGED <<mode, srcVars, dstVars, callerVars, addrVars, busVars, payVars, actorVars>>

\* service.rs 47, 65: the killed child is awaited; its status is the result
TaskKillWait(c) ==
    /\ task[c] = "kill_wait"
    /\ proc[c] # "running"
    /\ abort_result' = [abort_result EXCEPT ![c] = ExitStatus(proc[c])]
    /\ task' = [task EXCEPT ![c] = "ended"]
    /\ UNCHANGED <<linux, proc, term_sent, timer, abort_st, abort_ret, events, ctrl_c,
                   run_pc, exit_code>>
    /\ UNCHANGED <<mode, srcVars, dstVars, callerVars, addrVars, busVars, payVars, actorVars>>

\* service.rs 79-80, 145-151: abort() returns the result, or, the task having
\* ended without one, the error "process exited too early"; run() goes on to
\* abort the service, then returns 0
AbortReturn(c) ==
    /\ run_pc = IF c = "provider" THEN "abort_provider" ELSE "abort_yagna"
    /\ abort_st[c] = "waiting"
    /\ task[c] = "ended"
    /\ abort_ret' = [abort_ret EXCEPT ![c] = IF abort_result[c] # "none"
                                              THEN abort_result[c] ELSE "TooEarly"]
    /\ IF c = "provider"
       THEN /\ abort_st' = [abort_st EXCEPT ![c] = "returned", !["yagna"] = "waiting"]
            /\ run_pc' = "abort_yagna"
            /\ UNCHANGED exit_code
       ELSE /\ abort_st' = [abort_st EXCEPT ![c] = "returned"]
            /\ run_pc' = "done"
            /\ exit_code' = 0
    /\ UNCHANGED <<linux, proc, term_sent, task, timer, abort_result, events, ctrl_c>>
    /\ UNCHANGED <<mode, srcVars, dstVars, callerVars, addrVars, busVars, payVars, actorVars>>

\* service.rs 127-131: both children spawned and supervised, run() waiting
ChildInit ==
    /\ TransferIdle
    /\ BusIdle
    /\ ActorIdle
    /\ linux \in BOOLEAN
    /\ proc = [c \in Children |-> "running"]
    /\ term_sent = [c \in Children |-> FALSE]
    /\ task = [c \in Children |-> "select"]
    /\ timer = [c \in Children |-> "off"]
    /\ abort_st = [c \in Children |-> "none"]
    /\ abort_result = [c \in Children |-> "none"]
    /\ abort_ret = [c \in Children |-> "none"]
    /\ events = 0
    /\ ctrl_c = FALSE
    /\ run_pc = "waiting"
    /\ exit_code = "none"

ChildNext ==
    \/ CtrlC
    \/ RunWake
    \/ \E c \in Children :
          \/ ProcExit(c)
          \/ TaskChildExitedEarly(c)
          \/ TaskNotified(c)
          \/ TaskSeesAbort(c)
          \/ TimerFires(c)
          \/ TaskGraceExit(c)
          \/ \E ok \in BOOLEAN : TaskKill(c, ok)
          \/ TaskKillWait(c)
          \/ AbortReturn(c)

ChildSpec == ChildInit /\ [][ChildNext]_vars

\* the local task set runs every task and run() itself whenever it can go
\* on, and the grace timer fires; nothing makes a child end or ctrl-c arrive
ChildFairSpec ==
    /\ ChildSpec
    /\ WF_vars(RunWake)
    /\ \A c \in Children :
          /\ WF_vars(TaskChildExitedEarly(c))
          /\ WF_vars(TaskNotified(c))
          /\ WF_vars(TaskSeesAbort(c))
          /\ WF_vars(TimerFires(c))
          /\ WF_vars(TaskGraceExit(c))
          /\ WF_vars(\E ok \in BOOLEAN : TaskKill(c, ok))
          /\ WF_vars(TaskKillWait(c))
          /\ WF_vars(AbortReturn(c))

-----------------------------------------------------------------------------
(* Properties of the supervision.                                          *)

\* the child is being terminated: wait_and_kill has started and not returned
Terminating(c) == task[c] \in {"grace", "kill_wait"}

\* shutdown in two phases: a child is only ever killed by a wait_and_kill
\* whose grace timer has fired, after an abort was requested while it ran; a
\* child that has ended by itself is never killed; and abort() hands out an
\* exit status only of a child that has ended, and that status
TwoPhaseShutdown ==
    /\ [](\A c \in Children :
             /\ proc[c] = "killed" => (timer[c] = "fired" /\ abort_st[c] # "none")
             /\ Terminating(c) => abort_st[c] = "waiting"
             /\ timer[c] # "off" => abort_st[c] # "none"
             /\ abort_ret[c] \in {"Exited", "Killed"} =>
                   (proc[c] # "running" /\ abort_ret[c] = ExitStatus(proc[c]))
             /\ term_sent[c] => (send_term(c) /\ abort_st[c] # "none"))
    /\ [][\A c \in Children :
             /\ proc[c] = "exited" => proc'[c] = "exited"
             /\ (proc[c] = "running" /\ proc'[c] = "killed") =>
                   (task[c] = "grace" /\ timer[c] = "fired")
             /\ task'[c] # task[c] =>
                   <<task[c], task'[c]>> \in {<<"select", "grace">>, <<"select", "ended">>,
                                              <<"grace", "ended">>, <<"grace", "kill_wait">>,
                                              <<"kill_wait", "ended">>,
                                              <<"select", "notifying">>,
                                              <<"notifying", "ended">>}
             /\ term_sent'[c] # term_sent[c] => (task[c] = "select" /\ task'[c] = "grace")]_vars

\* C16 as stated: two-phase shutdown, and SIGTERM is sent first whenever
\* send_term is set: a child created with send_term that is being terminated
\* has been sent SIGTERM.
C16_SigtermWheneverSendTerm ==
    /\ TwoPhaseShutdown
    /\ [](\A c \in Children : (send_term(c) /\ Terminating(c)) => term_sent[c])

\* C16, amended: two-phase shutdown Running -> Terminating -> {Exited |
\* Killed}, where SIGTERM is sent first when send_term is set and the build
\* targets Linux, and in no other case.
C16_TwoPhaseShutdown ==
    /\ TwoPhaseShutdown
    /\ [](\A c \in Children :
             /\ (linux /\ send_term(c) /\ Terminating(c)) => term_sent[c]
             /\ term_sent[c] => linux)

\* on Linux: the service got SIGTERM, outlived the grace timer and was
\* killed, abort() returned that status; the provider, which gets no SIGTERM,
\* had ended by itself within its grace window and was not killed
C16_Witness ==
    /\ linux
    /\ term_sent["yagna"] /\ ~term_sent["provider"]
    /\ proc["yagna"] = "killed"
    /\ abort_ret["yagna"] = "Killed"
    /\ timer["provider"] = "off"
    /\ proc["provider"] = "exited"
    /\ abort_ret["provider"] = "Exited"

-----------------------------------------------------------------------------
(* Failures of the destination.                                            *)

\* the errors a destination transfer can fail with
DstErrors == {"InvalidUrlError", "InputError", "GftpError"} \cup (UploadOutcomes \ {"ok"})

\* C21: in the destination the first failure ends the transfer Failed with
\* that error: an error item taken from the input fails it with the item's
\* error, an UploadChunk call that did not succeed fails it with a call
\* error; as long as the worker runs, every call it has issued but the one in
\* flight was handled by the peer; and once Failed, no UploadChunk call is
\* issued, the rest of the current item and the items still queued are left
\* alone, and the error reported does not change.
C21_FirstFailureEndsDestination ==
    /\ [](HasDestination =>
             /\ dst_pc = "failed" => (Len(dst_result) = 1 /\ dst_result[1] \in DstErrors)
             /\ (dst_pc \in {"open", "slicing", "uploading", "completed"} /\ ~dst_abort) =>
                   Len(upload_log) = Len(upload_calls) - Cardinality(uploads))
    /\ [][(dst_pc = "open" /\ dst_pc' = "failed") =>
             (rx # <<>> /\ ~Head(rx).ok /\ dst_result' = <<Head(rx).err>>)]_vars
    /\ [][(dst_pc = "uploading" /\ dst_pc' = "failed") =>
             (uploads' = {} /\ dst_result'[1] \in UploadOutcomes \ {"ok"})]_vars
    /\ [][(dst_pc = "failed") =>
             /\ dst_pc' = "failed"
             /\ dst_result' = dst_result
             /\ upload_calls' = upload_calls
             /\ upload_log' = upload_log
             /\ <<bytes', i', offset'>> = <<bytes, i, offset>>
             /\ \E k \in 0..Len(rx') : SubSeq(rx', 1, Len(rx') - k) = rx]_vars

\* the peer's handler refused the first slice of an item of three slices
\* while another item was queued: nothing more was uploaded
C21_Witness ==
    /\ mode = "destination"
    /\ dst_pc = "failed"
    /\ dst_result = <<"remote_err">>
    /\ Len(bytes) > 2 * chunk_size
    /\ Len(upload_calls) = 1
    /\ upload_log = <<>>
    /\ rx # <<>>

-----------------------------------------------------------------------------
(* Transfers with a url that is not a gftp url.                            *)

\* C22: source(url) and destination(url) hand out a stream or sink whatever
\* the url is; with a url that is not a valid gftp url the worker makes no
\* bus call at all (no metadata, chunk or upload request, no address
\* contacted), the only way it ends, unless aborted first, is Failed, and
\* that failure is InvalidUrlError, seen as the single item of the stream or
\* as the result of the sink; while it has not ended and is not aborted, the
\* step that fails it is enabled.
C22_InvalidUrlFailsThroughResult ==
    /\ (HasSource /\ ~src_url_ok) =>
          /\ meta_calls = 0 /\ chunk_calls = <<>> /\ src_addrs = {}
          /\ src_pc \in {"created", "failed", "aborted"}
          /\ src_pc = "created" => (Emitted = <<>> /\ (~src_abort => ENABLED SrcStart))
          /\ src_pc = "failed" =>
                (src_result = <<"Failed">> /\ Emitted = <<ErrItem("InvalidUrlError")>>)
    /\ (HasDestination /\ ~dst_url_ok) =>
          /\ upload_calls = <<>> /\ uploads = {} /\ dst_addrs = {}
          /\ dst_pc \in {"created", "failed", "aborted"}
          /\ dst_pc = "created" => (dst_result = <<>> /\ (~dst_abort => ENABLED DstStart))
          /\ dst_pc = "failed" => dst_result = <<"InvalidUrlError">>

\* a download from and an upload to urls that are no gftp urls: both failed,
\* and the consumer of the stream has pulled the error
C22_Witness ==
    /\ mode = "pipe"
    /\ ~src_url_ok /\ ~dst_url_ok
    /\ src_pc = "failed"
    /\ delivered = <<ErrItem("InvalidUrlError")>>
    /\ dst_result = <<"InvalidUrlError">>

\* C23: the stored status becomes Received, and update_status is called, only
\* after the exchange with the recipient resolved with success; when it
\* resolved with Timeout, a transport failure or a remote error, the handler
\* has returned its response, update_status was never called and the status
\* is still the one stored before the request
C23_StatusOnlyAfterSuccess ==
    /\ update_calls \in {0, 1}
    /\ (update_calls > 0 \/ doc_status # "Issued" \/ pay_pc = "updating")
         => caller_outcomes = <<"Success">>
    /\ (caller_outcomes # <<>> /\ caller_outcomes # <<"Success">>)
         => /\ Len(caller_outcomes) = 1
            /\ pay_pc = "done"
            /\ Len(http) = 1
            /\ http[1] \in {400, 500, 504}
            /\ update_calls = 0
            /\ doc_status = "Issued"

C23_Witness ==
    /\ pay_op = "send_invoice"
    /\ caller_outcomes = <<"Transport">>
    /\ pay_pc = "done"
    /\ http = <<500>>
    /\ update_calls = 0
    /\ doc_status = "Issued"

\* C24: no message is handed to the bus and update_status is not called
\* unless dao.get found the document and the caller's identity is its issuer;
\* a missing document is answered 404 and a caller who is not the issuer 401,
\* and in both cases the bus has seen nothing of the request
C24_IssuerOnly ==
    /\ (call_state # "none" \/ pending \/ caller_outcomes # <<>>
            \/ update_calls > 0 \/ doc_status # "Issued")
         => (doc_lookup = "found" /\ doc_issuer = Identity)
    /\ (pay_pc = "done" /\ doc_lookup = "missing") => http = <<404>>
    /\ (pay_pc = "done" /\ doc_lookup = "found" /\ doc_issuer # Identity)
         => http = <<401>>
    /\ (http # <<>> /\ http[1] \in {401, 404})
         => /\ call_state = "none"
            /\ handled_by = "none"
            /\ caller_outcomes = <<>>
            /\ update_calls = 0
            /\ doc_status = "Issued"

C24_Witness ==
    /\ pay_op = "send_debit_note"
    /\ doc_lookup = "found"
    /\ doc_issuer = "other"
    /\ pay_pc = "done"
    /\ http = <<401>>
    /\ call_state = "none"
    /\ update_calls = 0

\* the child ended by itself with no abort requested of it yet
ExitedBeforeAbort(c) == proc[c] = "exited" /\ abort_st[c] = "none"

\* C25: once a supervised child has ended before abort was requested of it,
\* run() leaves its wait, both aborts return (the one on the child that ended
\* early with "process exited too early") and run() returns exit code 0,
\* whatever the interleaving of ctrl-c and of the children's exits
C25_EarlyExitEndsRun ==
    (\E c \in Children : ExitedBeforeAbort(c))
        ~> (run_pc = "done" /\ exit_code = 0)

-----------------------------------------------------------------------------
(* An actor whose handlers are generated by gen_actix_handler_async and    *)
(* gen_actix_handler_sync (agent/provider/src/utils/actix_handler.rs): the *)
(* implementation sits in an Rc<RefCell<>> that every handler borrows.     *)

\* the macros a handler is generated by
HandlerKinds == {"async", "sync"}

\* the actor has no use for the other variables
ActorFrame == UNCHANGED <<mode, srcVars, dstVars, callerVars, addrVars, busVars, payVars,
                          childVars>>

\* actix_handler.rs 42-56: a message is sent to the actor; it waits in the
\* mailbox
send_message(m, k) ==
    /\ actor_up
    /\ inv[m] = "none"
    /\ \A o \in Messages : o < m => inv[o] # "none"
    /\ kind' = [kind EXCEPT ![m] = k]
    /\ inv' = [inv EXCEPT ![m] = "queued"]
    /\ mailbox' = Append(mailbox, m)
    /\ UNCHANGED <<actor_up, actor_impl, borrow_errors>>
    /\ ActorFrame

\* (*actor_impl).borrow_mut() of invocation m finds the RefCell borrowed:
\* BorrowMutError, the panic unwinds the arbiter
BorrowMutPanics(m) ==
    /\ borrow_errors' = borrow_errors \cup {<<m, h>> : h \in actor_impl}
    /\ inv' = [inv EXCEPT ![m] = "panicked"]
    /\ actor_up' = FALSE
    /\ UNCHANGED actor_impl

\* actix_handler.rs 16-22, 34-36: the actor takes the next message and calls
\* handle(). The async handler clones the Rc and returns the future, which
\* ActorResponse::r#async has the context spawn: nothing is borrowed yet and
\* the actor goes on to its next message. The sync handler borrows and runs
\* the forwarded function inside handle()
handle ==
    /\ actor_up
    /\ mailbox # <<>>
    /\ LET m == Head(mailbox)
       IN  /\ mailbox' = Tail(mailbox)
           /\ IF kind[m] = "async"
              THEN /\ inv' = [inv EXCEPT ![m] = "spawned"]
                   /\ UNCHANGED <<actor_up, actor_impl, borrow_errors>>
              ELSE IF actor_impl = {}
                   THEN /\ inv' = [inv EXCEPT ![m] = "done"]
                        /\ UNCHANGED <<actor_up, actor_impl, borrow_errors>>
                   ELSE BorrowMutPanics(m)
    /\ UNCHANGED kind
    /\ ActorFrame

\* actix_handler.rs 19: the spawned future is polled for the first time:
\* borrow_mut(), then the forwarded async function runs up to its first
\* suspension, the RefMut staying alive across the await, or to its end
FuturePoll(m, suspends) ==
    /\ actor_up
    /\ inv[m] = "spawned"
    /\ IF actor_impl = {}
       THEN /\ inv' = [inv EXCEPT ![m] = IF suspends THEN "suspended" ELSE "done"]
            /\ actor_impl' = IF suspends THEN {m} ELSE {}
            /\ UNCHANGED <<actor_up, borrow_errors>>
       ELSE BorrowMutPanics(m)
    /\ UNCHANGED <<mailbox, kind>>
    /\ ActorFrame

\* actix_handler.rs 19: the forwarded function is woken and runs to its end;
\* the RefMut is dropped with the future
FutureResume(m) ==
    /\ actor_up
    /\ inv[m] = "suspended"
    /\ inv' = [inv EXCEPT ![m] = "done"]
    /\ actor_impl' = actor_impl \ {m}
    /\ UNCHANGED <<actor_up, mailbox, kind, borrow_errors>>
    /\ ActorFrame

\* the actor started, nothing sent to it yet
ActorInit ==
    /\ TransferIdle
    /\ BusIdle
    /\ ChildIdle
    /\ actor_up = TRUE
    /\ mailbox = <<>>
    /\ kind = [m \in Messages |-> "none"]
    /\ inv = [m \in Messages |-> "none"]
    /\ actor_impl = {}
    /\ borrow_errors = {}

ActorNext ==
    \/ \E m \in Messages, k \in HandlerKinds : send_message(m, k)
    \/ handle
    \/ \E m \in Messages, suspends \in BOOLEAN : FuturePoll(m, suspends)
    \/ \E m \in Messages : FutureResume(m)

ActorSpec == ActorInit /\ [][ActorNext]_vars

\* C26: for an actor with handlers generated by gen_actix_handler_async, in
\* no interleaving of the messages delivered to it does an invocation of
\* such a handler attempt borrow_mut() on the shared implementation while the
\* RefMut of an earlier invocation, suspended in its await, is outstanding
C26_NoBorrowWhileSuspended ==
    \A e \in borrow_errors :
        ~(kind[e[1]] = "async" /\ kind[e[2]] = "async" /\ inv[e[2]] = "suspended")

-----------------------------------------------------------------------------
(* Backpressure of the source.                                             *)

\* GetChunk calls issued whose item the consumer has not taken yet
Unconsumed == Len(chunk_calls) - Len(delivered)

\* what the pipeline holds between the calls and the consumer: the window of
\* Buffered, the item Forward holds, the item With holds, the channel
Held ==
    Len(in_progress) + (IF buffered_item = None THEN 0 ELSE 1)
        + (IF with_state = None THEN 0 ELSE 1) + Len(chan)

\* C27: the source applies backpressure: the GetChunk calls issued beyond the
\* items the consumer has taken never number more than the window size plus
\* the capacity of the output queue plus two, whatever the chunk count n; a
\* new call is issued only while the window has room, and while the worker
\* streams every such chunk sits in the window, in Forward, in With or in
\* the queue
C27_Backpressure ==
    /\ [](HasSource => Unconsumed <= rx_buffer_sz + ChannelSize + 2)
    /\ []((HasSource /\ src_pc = "streaming") => Unconsumed = Held)
    /\ [](Len(in_progress) <= rx_buffer_sz)
    /\ [](src_pc = "streaming" => Len(chan) <= ChannelSize + 1)
    /\ [][(Len(chunk_calls') > Len(chunk_calls)) =>
            (Len(in_progress) < rx_buffer_sz /\ Len(chunk_calls') = Len(chunk_calls) + 1)]_vars

\* the consumer has taken nothing, the pipeline is full and the worker, with
\* chunks left to fetch, can issue no further call
C27_Witness ==
    /\ mode = "source"
    /\ src_pc = "streaming"
    /\ delivered = <<>>
    /\ Unconsumed = rx_buffer_sz + ChannelSize + 2
    /\ next_chunk < n
    /\ tx_parked
    /\ ~ENABLED SrcIssue

====
